---- MODULE Spec2Model ----
(***************************************************************************)
(* Model of the mental-health screening service                            *)
(* (app/services/screening_service.py): input validation, severity         *)
(* mapping, Certainty-Factor aggregation in decimal arithmetic, rounding   *)
(* to a percentage and classification into bands.                          *)
(*                                                                         *)
(* Python values are represented as follows.                               *)
(*   dict            a sequence of <<key, value>> pairs with distinct      *)
(*                   keys, in insertion order                              *)
(*   Decimal         a record [neg, digits, exp]: sign, coefficient as a   *)
(*                   little-endian sequence of decimal digits without      *)
(*                   high zeros, and the exponent (value = coefficient *   *)
(*                   10^exp), as decimal.Decimal stores it                 *)
(*   rounded float   round(x, 2) is represented by the integer number of   *)
(*                   hundredths (72.0 is 7200): two-decimal doubles and    *)
(*                   integers of hundredths are in order-preserving        *)
(*                   one-to-one correspondence, and the thresholds 40, 80, *)
(*                   88, 97 are exact doubles                              *)
(*   error message   the sequence of the string pieces that the f-strings  *)
(*                   and str.join calls concatenate                        *)
(***************************************************************************)
EXTENDS Integers, Sequences, FiniteSets, TLC

(***************************************************************************)
(* Bounds of the model.                                                    *)
(***************************************************************************)
\* longest freely composed answer set (any order, any mix of valid and
\* invalid codes and values)
MaxFree == 2
\* most out-of-vocabulary keys appended to a (nearly) complete questionnaire
MaxExtra == 2
\* calls of process_screening made on the service instance
MaxRequests == 2

(***************************************************************************)
(* Generic helpers for sequences and dicts.                                *)
(***************************************************************************)
Range(s) == {s[i] : i \in DOMAIN s}

DictKeys(d) == [i \in DOMAIN d |-> d[i][1]]

DictHas(d, k) == \E i \in DOMAIN d : d[i][1] = k

DictGet(d, k) == d[CHOOSE i \in DOMAIN d : d[i][1] = k][2]

\* sep.join(parts), parts a sequence of strings: the pieces in order
RECURSIVE Join(_, _)
Join(parts, sep) ==
    IF parts = <<>> THEN <<>>
    ELSE IF Len(parts) = 1 THEN <<parts[1]>>
    ELSE <<parts[1], sep>> \o Join(Tail(parts), sep)

\* sep.join(parts), parts a sequence of already pieced strings
RECURSIVE JoinPieces(_, _)
JoinPieces(parts, sep) ==
    IF parts = <<>> THEN <<>>
    ELSE IF Len(parts) = 1 THEN parts[1]
    ELSE parts[1] \o <<sep>> \o JoinPieces(Tail(parts), sep)

(***************************************************************************)
(* decimal.Decimal arithmetic on digit sequences (little-endian).          *)
(***************************************************************************)
\* precision of the default decimal context (decimal.getcontext().prec)
DecimalPrec == 28

RECURSIVE StripHigh(_)
StripHigh(ds) ==
    IF ds = <<>> THEN <<>>
    ELSE IF ds[Len(ds)] = 0 THEN StripHigh(SubSeq(ds, 1, Len(ds) - 1))
    ELSE ds

Zeros(n) == [i \in 1..n |-> 0]

\* coefficient * 10^k
ShiftDigits(ds, k) == IF ds = <<>> THEN <<>> ELSE Zeros(k) \o ds

RECURSIVE AddDigits(_, _, _)
AddDigits(a, b, carry) ==
    IF a = <<>> /\ b = <<>> THEN (IF carry = 0 THEN <<>> ELSE <<carry>>)
    ELSE LET x == IF a = <<>> THEN 0 ELSE Head(a)
             y == IF b = <<>> THEN 0 ELSE Head(b)
             s == x + y + carry
         IN  <<s % 10>> \o AddDigits(IF a = <<>> THEN <<>> ELSE Tail(a),
                                     IF b = <<>> THEN <<>> ELSE Tail(b),
                                     s \div 10)

\* a - b for a >= b (as naturals); the result may carry high zeros
RECURSIVE SubDigits(_, _, _)
SubDigits(a, b, borrow) ==
    IF a = <<>> THEN <<>>
    ELSE LET y == IF b = <<>> THEN 0 ELSE Head(b)
             s == Head(a) - y - borrow
         IN  <<(s + 10) % 10>> \o SubDigits(Tail(a),
                                            IF b = <<>> THEN <<>> ELSE Tail(b),
                                            IF s < 0 THEN 1 ELSE 0)

\* -1, 0, 1 as a < b, a = b, a > b; both without high zeros
RECURSIVE CmpDigits(_, _)
CmpDigits(a, b) ==
    IF Len(a) # Len(b) THEN (IF Len(a) < Len(b) THEN -1 ELSE 1)
    ELSE IF a = <<>> THEN 0
    ELSE LET n == Len(a) IN
         IF a[n] # b[n] THEN (IF a[n] < b[n] THEN -1 ELSE 1)
         ELSE CmpDigits(StripHigh(SubSeq(a, 1, n - 1)),
                        StripHigh(SubSeq(b, 1, n - 1)))

RECURSIVE MulDigit(_, _, _)
MulDigit(a, m, carry) ==
    IF a = <<>> THEN (IF carry = 0 THEN <<>> ELSE <<carry>>)
    ELSE LET s == Head(a) * m + carry
         IN  <<s % 10>> \o MulDigit(Tail(a), m, s \div 10)

RECURSIVE MulDigits(_, _)
MulDigits(a, b) ==
    IF a = <<>> \/ b = <<>> THEN <<>>
    ELSE AddDigits(MulDigit(a, Head(b), 0),
                   ShiftDigits(MulDigits(a, Tail(b)), 1), 0)

RECURSIVE DigitsToInt(_)
DigitsToInt(ds) == IF ds = <<>> THEN 0 ELSE Head(ds) + 10 * DigitsToInt(Tail(ds))

Dec(neg, digits, exp) == [neg |-> neg, digits |-> digits, exp |-> exp]

\* the context's rounding of a result to DecimalPrec significant digits
\* (ROUND_HALF_EVEN, the default context's rounding)
DecFix(x) ==
    IF Len(x.digits) <= DecimalPrec THEN x
    ELSE LET k    == Len(x.digits) - DecimalPrec
             low  == StripHigh(SubSeq(x.digits, 1, k))
             q    == SubSeq(x.digits, k + 1, Len(x.digits))
             half == ShiftDigits(<<5>>, k - 1)
             c    == CmpDigits(low, half)
             up   == c = 1 \/ (c = 0 /\ q[1] % 2 = 1)
             r    == IF up THEN AddDigits(q, <<1>>, 0) ELSE q
         IN  IF Len(r) > DecimalPrec
             THEN Dec(x.neg, Tail(r), x.exp + k + 1)
             ELSE Dec(x.neg, r, x.exp + k)

\* Decimal.__mul__
DecMul(x, y) ==
    DecFix(Dec(x.neg # y.neg, MulDigits(x.digits, y.digits), x.exp + y.exp))

\* Decimal.__add__
DecAdd(x, y) ==
    LET e  == IF x.exp < y.exp THEN x.exp ELSE y.exp
        xs == ShiftDigits(x.digits, x.exp - e)
        ys == ShiftDigits(y.digits, y.exp - e)
        c  == CmpDigits(xs, ys)
    IN  DecFix(IF x.neg = y.neg THEN Dec(x.neg, AddDigits(xs, ys, 0), e)
               ELSE IF c = 0 THEN Dec(FALSE, <<>>, e)
               ELSE IF c = 1 THEN Dec(x.neg, StripHigh(SubDigits(xs, ys, 0)), e)
               ELSE Dec(y.neg, StripHigh(SubDigits(ys, xs, 0)), e))

\* Decimal.__sub__
DecSub(x, y) == DecAdd(x, Dec(~y.neg, y.digits, y.exp))

\* Decimal('1.0') and Decimal('100')
DecOne == Dec(FALSE, <<0, 1>>, -1)
DecHundred == Dec(FALSE, <<0, 0, 1>>, 0)

(***************************************************************************)
(* The class-level tables of ScreeningService.                             *)
(***************************************************************************)
\* f"G{i:02}"
Code(i) == IF i < 10 THEN "G0" \o ToString(i) ELSE "G" \o ToString(i)

\* the 21 of range(1, 22)
NumSymptoms == 21

SEVERITY_MAPPING ==
    << <<"TS", Dec(FALSE, <<2>>, -1)>>,
       <<"AS", Dec(FALSE, <<4>>, -1)>>,
       <<"S",  Dec(FALSE, <<6>>, -1)>>,
       <<"SS", Dec(FALSE, <<8>>, -1)>> >>

CF_PAKAR == [i \in 1..NumSymptoms |-> <<Code(i), Dec(FALSE, <<9>>, -1)>>]

DISEASE_SYMPTOMS ==
    << <<"Depresi",   <<"G04", "G05", "G10", "G13", "G16", "G17", "G21">> >>,
       <<"Kecemasan", <<"G02", "G03", "G07", "G09", "G15", "G19", "G20">> >>,
       <<"Stres",     <<"G01", "G06", "G08", "G11", "G12", "G14", "G18">> >> >>

VALID_SYMPTOM_CODES == {Code(i) : i \in 1..NumSymptoms}

VALID_SEVERITY_VALUES == Range(DictKeys(SEVERITY_MAPPING))

(***************************************************************************)
(* _validate_input: the pieces of the ValueError's message, or NoError     *)
(* when the answer set passes.                                             *)
(***************************************************************************)
NoError == <<>>

\* mutant: the loop stops at the first code that is out of the vocabulary
RECURSIVE InvalidCodesFirstOnly(_)
InvalidCodesFirstOnly(jw) ==
    IF jw = <<>> THEN <<>>
    ELSE IF Head(jw)[1] \notin VALID_SYMPTOM_CODES THEN <<Head(jw)[1]>>
    ELSE InvalidCodesFirstOnly(Tail(jw))

\* invalid_codes after the loop
RECURSIVE InvalidCodes(_)
InvalidCodes(jw) ==
    IF jw = <<>> THEN <<>>
    ELSE (IF Head(jw)[1] \notin VALID_SYMPTOM_CODES THEN <<Head(jw)[1]>> ELSE <<>>)
         \o InvalidCodes(Tail(jw))

\* invalid_values after the loop, each entry f"{kode}: {nilai}"
RECURSIVE InvalidValues(_)
InvalidValues(jw) ==
    IF jw = <<>> THEN <<>>
    ELSE (IF Head(jw)[2] \notin VALID_SEVERITY_VALUES
          THEN <<Head(jw)[1] \o ": " \o Head(jw)[2]>> ELSE <<>>)
         \o InvalidValues(Tail(jw))

\* mutant: only the first kind of error found is reported
ValidationErrorsFirstOnly(jw) ==
    IF InvalidCodes(jw) # <<>>
    THEN << <<"Kode gejala tidak valid: ">> \o Join(InvalidCodes(jw), ", ") >>
    ELSE IF InvalidValues(jw) # <<>>
    THEN << <<"Nilai severity tidak valid: ">> \o Join(InvalidValues(jw), ", ") >>
    ELSE <<>>

\* the list errors
ValidationErrors(jw) ==
    (IF InvalidCodes(jw) # <<>>
     THEN << <<"Kode gejala tidak valid: ">> \o Join(InvalidCodes(jw), ", ") >>
     ELSE <<>>)
    \o
    (IF InvalidValues(jw) # <<>>
     THEN << <<"Nilai severity tidak valid: ">> \o Join(InvalidValues(jw), ", ") >>
     ELSE <<>>)

\* mutant: the check for an empty answer set is missing
ValidateInputNoEmptyCheck(jw) ==
    IF Len(jw) > Cardinality(VALID_SYMPTOM_CODES)
    THEN <<"Jumlah gejala melebihi batas maksimal ",
           ToString(Cardinality(VALID_SYMPTOM_CODES))>>
    ELSE JoinPieces(ValidationErrors(jw), "; ")

\* mutant: the check of the number of entries is missing
ValidateInputNoSizeCheck(jw) ==
    IF jw = <<>> THEN <<"Data jawaban tidak boleh kosong">>
    ELSE JoinPieces(ValidationErrors(jw), "; ")

ValidateInput(jw) ==
    IF jw = <<>> THEN <<"Data jawaban tidak boleh kosong">>
    ELSE IF Len(jw) > Cardinality(VALID_SYMPTOM_CODES)
    THEN <<"Jumlah gejala melebihi batas maksimal ",
           ToString(Cardinality(VALID_SYMPTOM_CODES))>>
    ELSE JoinPieces(ValidationErrors(jw), "; ")

(***************************************************************************)
(* _map_severity_values                                                    *)
(***************************************************************************)
MapSeverityValues(jw) ==
    [i \in DOMAIN jw |-> <<jw[i][1], DictGet(SEVERITY_MAPPING, jw[i][2])>>]

\* str(e) of the KeyError that the lookup SEVERITY_MAPPING[nilai] raises at
\* the first value that is no key of the table (repr of the value), or
\* NoError; the lookups of _calculate_cf_total (cf_user_input[gejala] behind
\* its membership test, CF_PAKAR[gejala] for the codes of DISEASE_SYMPTOMS,
\* all keys of CF_PAKAR) and _format_results raise nothing
RECURSIVE MapSeverityError(_)
MapSeverityError(jw) ==
    IF jw = <<>> THEN NoError
    ELSE IF ~DictHas(SEVERITY_MAPPING, Head(jw)[2])
    THEN <<"'", Head(jw)[2], "'">>
    ELSE MapSeverityError(Tail(jw))

(***************************************************************************)
(* _calculate_cf_total                                                     *)
(***************************************************************************)
\* mutant: a symptom that was not answered counts as answered "TS"
RECURSIVE CollectCfDefaultTS(_, _)
CollectCfDefaultTS(gejala_list, cf_user_input) ==
    IF gejala_list = <<>> THEN <<>>
    ELSE LET gejala == Head(gejala_list)
             rest   == CollectCfDefaultTS(Tail(gejala_list), cf_user_input)
             cf_user == IF DictHas(cf_user_input, gejala)
                        THEN DictGet(cf_user_input, gejala)
                        ELSE DictGet(SEVERITY_MAPPING, "TS")
         IN  <<DecMul(cf_user, DictGet(CF_PAKAR, gejala))>> \o rest

\* cf_combined after the inner loop over gejala_list
RECURSIVE CollectCf(_, _)
CollectCf(gejala_list, cf_user_input) ==
    IF gejala_list = <<>> THEN <<>>
    ELSE LET gejala == Head(gejala_list)
             rest   == CollectCf(Tail(gejala_list), cf_user_input)
         IN  IF DictHas(cf_user_input, gejala)
             THEN <<DecMul(DictGet(cf_user_input, gejala),
                           DictGet(CF_PAKAR, gejala))>> \o rest
             ELSE rest

\* mutant: cf_total + cf * (Decimal('1.0') - cf)
CombineStepWrongOperand(cf_total, cf) ==
    DecAdd(cf_total, DecMul(cf, DecSub(DecOne, cf)))

\* mutant: cf_total + cf
CombineStepSum(cf_total, cf) == DecAdd(cf_total, cf)

\* mutant: cf_total - cf * (Decimal('1.0') - cf_total)
CombineStepSignSlip(cf_total, cf) ==
    DecSub(cf_total, DecMul(cf, DecSub(DecOne, cf_total)))

\* cf_total + cf * (Decimal('1.0') - cf_total)
CombineStep(cf_total, cf) ==
    DecAdd(cf_total, DecMul(cf, DecSub(DecOne, cf_total)))

\* the successive values of cf_total: cf_combined[0], then one per loop turn
RECURSIVE CfTotals(_, _)
CfTotals(cf_total, rest) ==
    IF rest = <<>> THEN <<cf_total>>
    ELSE <<cf_total>> \o CfTotals(CombineStep(cf_total, Head(rest)), Tail(rest))

\* the values of cf_total for one disease (none when cf_combined is empty)
CfTrace(cf_combined) ==
    IF cf_combined = <<>> THEN <<>>
    ELSE CfTotals(Head(cf_combined), Tail(cf_combined))

Pct(n) == n * 100

\* mutant: the digits after the second decimal place are cut off
RoundFloat2Truncate(p) ==
    LET d2 == IF -p.exp <= 2 THEN ShiftDigits(p.digits, 2 + p.exp)
              ELSE SubSeq(p.digits, -p.exp - 1, Len(p.digits))
    IN  {IF p.neg THEN -DigitsToInt(d2) ELSE DigitsToInt(d2)}

\* round(float(p), 2) in hundredths, for |p| <= 100.  float(p) is the double
\* nearest to p, at most 100 * 2^-53 < 0.12e-13 away; round(x, 2) is the
\* two-decimal value nearest to the double, ties (of the double) to even.
\* With P the digits of |p| up to the 13th decimal place, p lies in
\* [P, P+1) * 1e-13, so the double lies strictly on p's side of the
\* half-way point unless P is the half-way point or the value just below it;
\* in that case the double may fall on either side, and both roundings are
\* results the conversion can produce.
RoundFloat2(p) ==
    LET d13   == IF -p.exp <= 13 THEN ShiftDigits(p.digits, 13 + p.exp)
                 ELSE SubSeq(p.digits, -p.exp - 12, Len(p.digits))
        low   == StripHigh(SubSeq(d13, 1, IF Len(d13) < 11 THEN Len(d13) ELSE 11))
        q     == DigitsToInt(SubSeq(d13, 12, Len(d13)))
        half  == ShiftDigits(<<5>>, 10)
        mags  == IF CmpDigits(AddDigits(low, <<2>>, 0), half) <= 0 THEN {q}
                 ELSE IF CmpDigits(low, half) = 1 THEN {q + 1}
                 ELSE {q, q + 1}
    IN  IF p.neg THEN {-m : m \in mags} ELSE mags

\* hasil[penyakit]: 0.0 without contributions, else the rounded percentage
Percentage(cf_combined) ==
    IF cf_combined = <<>> THEN {0}
    ELSE LET trace == CfTrace(cf_combined)
         IN  RoundFloat2(DecMul(trace[Len(trace)], DecHundred))

\* mutant: a disease without contributions gets no entry in hasil
RECURSIVE HasilOverSkipEmpty(_, _)
HasilOverSkipEmpty(diseases, cf_user_input) ==
    IF diseases = <<>> THEN {<<>>}
    ELSE IF CollectCf(Head(diseases)[2], cf_user_input) = <<>>
    THEN HasilOverSkipEmpty(Tail(diseases), cf_user_input)
    ELSE {<< <<Head(diseases)[1], p>> >> \o rest :
            p \in Percentage(CollectCf(Head(diseases)[2], cf_user_input)),
            rest \in HasilOverSkipEmpty(Tail(diseases), cf_user_input)}

\* the dicts hasil the loop over DISEASE_SYMPTOMS can build
RECURSIVE HasilOver(_, _)
HasilOver(diseases, cf_user_input) ==
    IF diseases = <<>> THEN {<<>>}
    ELSE {<< <<Head(diseases)[1], p>> >> \o rest :
            p \in Percentage(CollectCf(Head(diseases)[2], cf_user_input)),
            rest \in HasilOver(Tail(diseases), cf_user_input)}

CalculateCfTotal(cf_user_input) == HasilOver(DISEASE_SYMPTOMS, cf_user_input)

\* the values cf_total took, per disease
CalculateCfTrace(cf_user_input) ==
    [i \in DOMAIN DISEASE_SYMPTOMS |->
        <<DISEASE_SYMPTOMS[i][1],
          CfTrace(CollectCf(DISEASE_SYMPTOMS[i][2], cf_user_input))>>]

(***************************************************************************)
(* _determine_category and the three band tables; persentase in hundredths *)
(***************************************************************************)
KategoriDepresi(persentase) ==
    IF persentase >= Pct(97) THEN
        <<"Sangat Berat",
          "Pikiran untuk bunuh diri, rasa hampa total, tidak mampu melakukan aktivitas dasar. Rekomendasi: Harus segera diperiksakan ke psikiater. Kemungkinan besar membutuhkan obat antidepresan, dan dalam kasus tertentu, harus rawat inap. Hindari akses ke alat yang berbahaya. Tidak boleh dibiarkan sendiri. Diskusikan dengan psikiater kemungkinan mendapatkan psikoterapi dari psikolog">>
    ELSE IF persentase >= Pct(88) THEN
        <<"Berat",
          "Putus asa, tidak berharga, gangguan tidur berat, nafsu makan turun/naik drastis. Rekomendasi: Segera hubungi psikiater untuk pemeriksaan dan kemungkinan pengobatan farmakologis (antidepresan). Keluarga atau teman dekat perlu waspada terhadap tanda bunuh diri atau self-harm. Pertimbangkan break/cuti kuliah bila perlu. Psikoterapi dengan psikolog minimal 1x/minggu">>
    ELSE IF persentase >= Pct(80) THEN
        <<"Sedang",
          "Sedih terus-menerus, gangguan tidur, harga diri rendah, kesulitan berkonsentrasi. Rekomendasi: Identifikasi stresor (akademik, pekerjaan, hubungan) dan cari solusi bersama psikolog. Tidur teratur (6-8 jam), hindari alkohol/narkoba, konsumsi makanan bergizi. Bergabung dengan kelompok dukungan sebaya (peer support) untuk mengurangi rasa kesepian">>
    ELSE IF persentase >= Pct(40) THEN
        <<"Ringan",
          "Perasaan sedih sesekali, kehilangan minat ringan, mudah lelah, kurang semangat. Rekomendasi: Pahami bahwa perasaan sedih adalah bagian dari pengalaman manusia. Lakukan olahraga ringan minimal 3-5 kali/minggu. Buat jadwal harian dan tetapkan target kecil. Bicarakan perasaan dengan teman, keluarga, atau konselor kampus. Latihan pernapasan, meditasi, atau jurnal harian">>
    ELSE <<"Normal", "Tidak menunjukkan gangguan signifikan">>

KategoriKecemasan(persentase) ==
    IF persentase >= Pct(97) THEN
        <<"Sangat Berat",
          "Serangan panik, menghindari situasi sosial. Rekomendasi: Periksa ke psikiater. Kemungkinan perlu kombinasi obat dan terapi psikologis intensif. Perlu dukungan sosial terlatih. Kemungkinan ada serangan panik yang menyebabkan emergency, perlu kunjungan ke IGD">>
    ELSE IF persentase >= Pct(88) THEN
        <<"Berat",
          "Sulit bernapas, takut kehilangan kendali. Rekomendasi: Perlu periksa ke psikiater apakah diperlukan obat anti kecemasan. Psikoterapi dengan psikolog untuk menentukan sumber pemicu kecemasan dan bagaimana mengatasinya">>
    ELSE IF persentase >= Pct(80) THEN
        <<"Sedang",
          "Gemetar, berkeringat, takut akan bahaya. Rekomendasi: Konseling psikologis dengan psikolog. Identifikasi pemicu dan kelola kecemasan. Gunakan teknik grounding. Bentuk support system yang baik. Hindari konsumsi stimulan (kopi, dll)">>
    ELSE IF persentase >= Pct(40) THEN
        <<"Ringan",
          "Gugup, waspada berlebihan. Rekomendasi: Relaksasi, Butterfly hug, Aktivitas fisik (olahraga ringan)">>
    ELSE <<"Normal", "Tidak menunjukkan gangguan signifikan">>

KategoriStres(persentase) ==
    IF persentase >= Pct(97) THEN
        <<"Sangat Berat",
          "Gejala somatik, burnout, gangguan fungsi sehari-hari. Rekomendasi: Ikuti saran dari psikolog (dan psikiater) untuk pemulihan. Pertimbangkan cuti kuliah (jika perlu). Libatkan orang lain sebagai sumber dukungan. Batasi penggunaan gadget/medsos. Jaga kesehatan fisik dengan memperhatikan asupan makan dan pola tidur sehat">>
    ELSE IF persentase >= Pct(88) THEN
        <<"Berat",
          "Tertekan, sulit berkonsentrasi, mudah lelah. Rekomendasi: Segera konsultasi ke psikolog. Diskusikan dengan psikolog kemungkinan perlunya periksa ke psikiater. Lakukan praktik regulasi emosi. Lakukan penyesuaian waktu dan beban tugas. Batasi penggunaan gadget/medsos">>
    ELSE IF persentase >= Pct(80) THEN
        <<"Sedang",
          "Sulit rileks, mudah marah, mudah kaget. Rekomendasi: Konseling psikologis dengan psikolog. Belajar mengatakan 'tidak' dan tentukan prioritas. Bentuk kelompok dukungan teman sebaya">>
    ELSE IF persentase >= Pct(40) THEN
        <<"Ringan",
          "Kelola tugas dan waktu. Break sejenak dari rutinitas harian. Mindfulness sederhana. Batasi penggunaan gadget dan medsos">>
    ELSE <<"Normal", "Tidak menunjukkan gangguan signifikan">>

\* mutant: the branch of Stres calls the method of Kecemasan
DetermineCategoryCopied(penyakit, persentase) ==
    IF penyakit = "Depresi" THEN KategoriDepresi(persentase)
    ELSE IF penyakit = "Kecemasan" THEN KategoriKecemasan(persentase)
    ELSE IF penyakit = "Stres" THEN KategoriKecemasan(persentase)
    ELSE <<"Tidak Diketahui", "Konsultasi dengan profesional kesehatan">>

\* mutant: the thresholds are compared with > instead of >=
DetermineCategoryStrict(penyakit, persentase) ==
    IF penyakit = "Depresi" THEN KategoriDepresi(persentase - 1)
    ELSE IF penyakit = "Kecemasan" THEN KategoriKecemasan(persentase - 1)
    ELSE IF penyakit = "Stres" THEN KategoriStres(persentase - 1)
    ELSE <<"Tidak Diketahui", "Konsultasi dengan profesional kesehatan">>

DetermineCategory(penyakit, persentase) ==
    IF penyakit = "Depresi" THEN KategoriDepresi(persentase)
    ELSE IF penyakit = "Kecemasan" THEN KategoriKecemasan(persentase)
    ELSE IF penyakit = "Stres" THEN KategoriStres(persentase)
    ELSE <<"Tidak Diketahui", "Konsultasi dengan profesional kesehatan">>

(***************************************************************************)
(* _format_results                                                         *)
(***************************************************************************)
FormatResults(hasil) ==
    [i \in DOMAIN hasil |->
        <<hasil[i][1],
          [kategori   |-> DetermineCategory(hasil[i][1], hasil[i][2])[1],
           keterangan |-> DetermineCategory(hasil[i][1], hasil[i][2])[2]]>>]

(***************************************************************************)
(* The answer sets callers submit.                                         *)
(***************************************************************************)
SeverityLabels == <<"TS", "AS", "S", "SS">>

\* codes and values of the freely composed answer sets: the codes of the
\* documented example, two codes out of the vocabulary, the four labels and
\* the label the tests use as an unknown one
FreeCodes == {"G01", "G02", "G03", "G04", "G00", "G99"}

FreeValues == {"TS", "AS", "S", "SS", "INVALID"}

\* every dict of at most MaxFree entries over FreeCodes and FreeValues, in
\* every insertion order
FreeSets ==
    UNION {{s \in [1..n -> FreeCodes \X FreeValues] :
              \A i, j \in 1..n : i # j => s[i][1] # s[j][1]} : n \in 0..MaxFree}

\* the first n questions answered SS, S, AS, TS, SS, ... as in the tests'
\* complete questionnaire; n = 4 is the documented example
CycleSets ==
    {[i \in 1..n |-> <<Code(i), <<"SS", "S", "AS", "TS">>[((i - 1) % 4) + 1]>>] :
        n \in 1..NumSymptoms}

\* where code G<i> stands in DISEASE_SYMPTOMS: <<disease index, position>>
PlaceOf(i) ==
    CHOOSE pl \in (DOMAIN DISEASE_SYMPTOMS) \X (1..NumSymptoms) :
        /\ pl[2] \in DOMAIN DISEASE_SYMPTOMS[pl[1]][2]
        /\ DISEASE_SYMPTOMS[pl[1]][2][pl[2]] = Code(i)

\* severity profiles: the non-decreasing sequences of label indices, one
\* entry per answered symptom of a disease
Profiles ==
    UNION {{s \in [1..n -> DOMAIN SeverityLabels] :
              \A i \in 1..(n - 1) : s[i] <= s[i + 1]} :
           n \in 0..Len(DISEASE_SYMPTOMS[1][2])}

\* the questionnaire, in code order, that answers the first Len(s) symptoms
\* of every disease; the k-th disease shifts the profile's labels by k - 1
RECURSIVE ProfileAnswers(_, _)
ProfileAnswers(s, i) ==
    IF i > NumSymptoms THEN <<>>
    ELSE LET pl == PlaceOf(i)
         IN  (IF pl[2] <= Len(s)
              THEN << <<Code(i), SeverityLabels[((s[pl[2]] + pl[1] - 2) % 4) + 1]>> >>
              ELSE <<>>)
             \o ProfileAnswers(s, i + 1)

ProfileSets == {ProfileAnswers(s, 1) : s \in Profiles}

\* the first n codes, then k keys G22, G23, ... out of the vocabulary, all
\* with the same value: complete and oversized questionnaires
LargeSets ==
    {[i \in 1..n |-> <<Code(i), v>>] \o [i \in 1..k |-> <<Code(NumSymptoms + i), v>>] :
        n \in (NumSymptoms - 2)..NumSymptoms, k \in 0..MaxExtra, v \in FreeValues}

AnswerSets == FreeSets \cup CycleSets \cup ProfileSets \cup LargeSets

(***************************************************************************)
(* State.                                                                  *)
(***************************************************************************)
VARIABLES
    request_count,     \* self._request_count
    processing_times,  \* self._processing_times
    pc,                \* "idle", or "returned": a call has ended and its
                       \* caller holds what it returned or raised
    jawaban,           \* the argument of that call
    cf_trace,          \* its values of cf_total, per disease
    hasil_cf,          \* its hasil_cf
    outcome,           \* what it returned (kind "ok") or raised
    cls,               \* the arguments and result of a classification alone
    cmb,               \* the operands and result of one fold step alone
    seen,              \* an earlier call's argument, outcome and hasil_cf,
                       \* kept for comparison (<<>> when none is kept)
    request_timestamps,\* the module-level dict of endpoints/screening.py
    now,               \* time.time(), in seconds
    http_request,      \* the POST /api/screening being answered
    http_response,     \* its response, until it is sent
    admitted,          \* history: per client, the times of all its requests
                       \* that passed rate_limit_check
    threads,           \* per thread that shares the service instance: its
                       \* position in process_screening and its locals
    metrics,           \* what get_service_metrics returned last
    invoked            \* history: invocations of process_screening by threads

vars == <<request_count, processing_times, pc, jawaban, cf_trace, hasil_cf,
          outcome, cls, cmb, seen, request_timestamps, now, http_request,
          http_response, admitted, threads, metrics, invoked>>

\* the state of the threads that call the service concurrently
threadVars == <<threads, metrics, invoked>>

\* the state of the HTTP layer
httpVars == <<request_timestamps, now, http_request, http_response, admitted>>

\* the fields of the service instance and the position and locals of a call
serviceVars == <<request_count, processing_times, pc, jawaban, cf_trace,
                 hasil_cf, outcome>>

NoCall == [kind |-> "none", results |-> <<>>, message |-> <<>>]

NoClass == [penyakit |-> "", persentase |-> 0, kategori |-> "", keterangan |-> ""]

NoCombine == [cf_total |-> <<>>, cf |-> <<>>, result |-> <<>>]

NoRequest == [client_ip |-> "", jawaban |-> <<>>]

NoResponse == [status_code |-> 0, detail |-> <<>>, content |-> <<>>]

\* threads that call the service; a thread outside a call
MaxThreads == 2

Threads == 1..MaxThreads

IdleThread == [pc |-> "idle", jawaban |-> <<>>, count |-> 0, outcome |-> NoCall]

NoMetrics ==
    [total_requests |-> -1, average_processing_time |-> 0,
     recent_processing_times |-> <<>>]

\* the client identifiers get_client_identifier yields
Clients == {"10.0.0.1", "10.0.0.2"}

Init ==
    /\ request_count = 0
    /\ processing_times = <<>>
    /\ pc = "idle"
    /\ jawaban = <<>>
    /\ cf_trace = <<>>
    /\ hasil_cf = <<>>
    /\ outcome = NoCall
    /\ cls = NoClass
    /\ cmb = NoCombine
    /\ seen = <<>>
    /\ request_timestamps = <<>>
    /\ now = 0
    /\ http_request = NoRequest
    /\ http_response = NoResponse
    /\ admitted = [c \in Clients |-> <<>>]
    /\ threads = [t \in Threads |-> IdleThread]
    /\ metrics = NoMetrics
    /\ invoked = 0

(***************************************************************************)
(* process_screening(jawaban), from its first line to its return or raise. *)
(* The elapsed time appended to _processing_times is not modelled: the     *)
(* entry is 0.  An exception of the steps after validation is wrapped by   *)
(* the handler of lines 90-99; on a dict of strings that passed            *)
(* _validate_input those steps raise nothing.                              *)
(***************************************************************************)
\* mutant: the handler of Exception stands first and catches the
\* ValueError of the validation too
ProcessScreeningWrapsAll(jw) ==
    /\ request_count' = request_count + 1
    /\ jawaban' = jw
    /\ pc' = "returned"
    /\ UNCHANGED <<cls, cmb, seen, threadVars>>
    /\ IF ValidateInput(jw) # NoError \/ MapSeverityError(jw) # NoError
       THEN /\ outcome' = [kind |-> "Exception", results |-> <<>>,
                           message |-> <<"Terjadi kesalahan sistem dalam memproses screening: ">>
                                       \o (IF ValidateInput(jw) # NoError
                                           THEN ValidateInput(jw)
                                           ELSE MapSeverityError(jw))]
            /\ cf_trace' = <<>>
            /\ hasil_cf' = <<>>
            /\ processing_times' = processing_times
       ELSE /\ hasil_cf' \in CalculateCfTotal(MapSeverityValues(jw))
            /\ cf_trace' = CalculateCfTrace(MapSeverityValues(jw))
            /\ outcome' = [kind |-> "ok", results |-> FormatResults(hasil_cf'),
                           message |-> <<>>]
            /\ processing_times' = Append(processing_times, 0)

\* mutant: the number of requests of the log line (line 82) is put into
\* what the call returns
ProcessScreeningCounted(jw) ==
    /\ request_count' = request_count + 1
    /\ jawaban' = jw
    /\ pc' = "returned"
    /\ UNCHANGED <<cls, cmb, seen, threadVars>>
    /\ IF ValidateInput(jw) # NoError
       THEN /\ outcome' = [kind |-> "ValueError", results |-> <<>>,
                           message |-> ValidateInput(jw)]
            /\ cf_trace' = <<>>
            /\ hasil_cf' = <<>>
            /\ processing_times' = processing_times
       ELSE IF MapSeverityError(jw) # NoError
       THEN /\ outcome' = [kind |-> "Exception", results |-> <<>>,
                           message |-> <<"Terjadi kesalahan sistem dalam memproses screening: ">>
                                       \o MapSeverityError(jw)]
            /\ cf_trace' = <<>>
            /\ hasil_cf' = <<>>
            /\ processing_times' = processing_times
       ELSE /\ hasil_cf' \in CalculateCfTotal(MapSeverityValues(jw))
            /\ cf_trace' = CalculateCfTrace(MapSeverityValues(jw))
            /\ outcome' = [kind |-> "ok", results |-> FormatResults(hasil_cf'),
                           message |-> <<"Total requests: ",
                                         ToString(request_count')>>]
            /\ processing_times' = Append(processing_times, 0)

ProcessScreening(jw) ==
    /\ request_count' = request_count + 1
    /\ jawaban' = jw
    /\ pc' = "returned"
    /\ UNCHANGED <<cls, cmb, seen, threadVars>>
    /\ IF ValidateInput(jw) # NoError
       THEN /\ outcome' = [kind |-> "ValueError", results |-> <<>>,
                           message |-> ValidateInput(jw)]
            /\ cf_trace' = <<>>
            /\ hasil_cf' = <<>>
            /\ processing_times' = processing_times
       ELSE IF MapSeverityError(jw) # NoError
       THEN /\ outcome' = [kind |-> "Exception", results |-> <<>>,
                           message |-> <<"Terjadi kesalahan sistem dalam memproses screening: ">>
                                       \o MapSeverityError(jw)]
            /\ cf_trace' = <<>>
            /\ hasil_cf' = <<>>
            /\ processing_times' = processing_times
       ELSE /\ hasil_cf' \in CalculateCfTotal(MapSeverityValues(jw))
            /\ cf_trace' = CalculateCfTrace(MapSeverityValues(jw))
            /\ outcome' = [kind |-> "ok", results |-> FormatResults(hasil_cf'),
                           message |-> <<>>]
            /\ processing_times' = Append(processing_times, 0)

\* the caller takes the result or the exception; the call's locals are gone
Return ==
    /\ pc = "returned"
    /\ pc' = "idle"
    /\ jawaban' = <<>>
    /\ cf_trace' = <<>>
    /\ hasil_cf' = <<>>
    /\ outcome' = NoCall
    /\ UNCHANGED <<request_count, processing_times, cls, cmb, seen, httpVars,
                   threadVars>>

\* a caller invokes process_screening with some answer set
Call ==
    /\ pc = "idle"
    /\ request_count < MaxRequests
    /\ \E jw \in AnswerSets : ProcessScreening(jw)
    /\ UNCHANGED httpVars

Next ==
    \/ Call
    \/ Return

Spec == Init /\ [][Next]_vars

(***************************************************************************)
(* Repeated calls on the one service instance (the module-level            *)
(* screening_service): a caller may keep what a call returned or raised    *)
(* and compare it with what a later call gives.                            *)
(***************************************************************************)
\* the answer sets of the repeated calls: empty, single answers of every
\* kind, the first n questions answered, complete and oversized
\* questionnaires
RepeatSets == {jw \in FreeSets : Len(jw) <= 1} \cup CycleSets \cup LargeSets

\* the caller takes the result or the exception and keeps it
ReturnKept ==
    /\ pc = "returned"
    /\ seen = <<>>
    /\ seen' = <<jawaban, outcome, hasil_cf>>
    /\ pc' = "idle"
    /\ jawaban' = <<>>
    /\ cf_trace' = <<>>
    /\ hasil_cf' = <<>>
    /\ outcome' = NoCall
    /\ UNCHANGED <<request_count, processing_times, cls, cmb, httpVars,
                   threadVars>>

RepeatCall ==
    /\ pc = "idle"
    /\ request_count <= MaxRequests
    /\ \E jw \in RepeatSets : ProcessScreening(jw)
    /\ UNCHANGED httpVars

NextRepeat ==
    \/ RepeatCall
    \/ Return
    \/ ReturnKept

SpecRepeat == Init /\ [][NextRepeat]_vars

(***************************************************************************)
(* A questionnaire scored, then scored again with one answer more or one   *)
(* answer raised.                                                          *)
(***************************************************************************)
\* the valid questionnaires scored first
FirstSets == {jw \in ProfileSets \cup CycleSets : ValidateInput(jw) = NoError}

\* the place of a label in TS, AS, S, SS
LabelPlace(label) == CHOOSE i \in DOMAIN SeverityLabels : SeverityLabels[i] = label

\* jw with an answer added for a symptom not yet answered
WithAnswerAdded(jw) ==
    {Append(jw, <<kode, SeverityLabels[i]>>) :
        kode \in VALID_SYMPTOM_CODES \ Range(DictKeys(jw)),
        i \in DOMAIN SeverityLabels}

\* jw with the answer of one symptom raised
WithAnswerRaised(jw) ==
    {[jw EXCEPT ![ki[1]] = <<jw[ki[1]][1], SeverityLabels[ki[2]]>>] :
        ki \in {x \in (DOMAIN jw) \X (DOMAIN SeverityLabels) :
                  x[2] > LabelPlace(jw[x[1]][2])}}

FirstCall ==
    /\ pc = "idle"
    /\ seen = <<>>
    /\ \E jw \in FirstSets : ProcessScreening(jw)
    /\ UNCHANGED httpVars

SecondCall ==
    /\ pc = "idle"
    /\ seen # <<>>
    /\ \E jw \in WithAnswerAdded(seen[1]) \cup WithAnswerRaised(seen[1]) :
          ProcessScreening(jw)
    /\ UNCHANGED httpVars

NextMonotone ==
    \/ FirstCall
    \/ ReturnKept
    \/ SecondCall

SpecMonotone == Init /\ [][NextMonotone]_vars

(***************************************************************************)
(* _determine_category on its own, over every two-decimal percentage in    *)
(* [0, 100] and every disease name, and a name that is none of them.       *)
(***************************************************************************)
ClassifyNames == {"Depresi", "Kecemasan", "Stres", "Lainnya"}

Classify(penyakit, persentase) ==
    /\ cls' = [penyakit   |-> penyakit,
               persentase |-> persentase,
               kategori   |-> DetermineCategory(penyakit, persentase)[1],
               keterangan |-> DetermineCategory(penyakit, persentase)[2]]
    /\ UNCHANGED <<serviceVars, cmb, seen, httpVars, threadVars>>

ClassifyReturn ==
    /\ cls # NoClass
    /\ cls' = NoClass
    /\ UNCHANGED <<serviceVars, cmb, seen, httpVars, threadVars>>

\* a caller invokes _determine_category
ClassifyCall ==
    /\ cls = NoClass
    /\ \E penyakit \in ClassifyNames, persentase \in 0..Pct(100) :
          Classify(penyakit, persentase)

NextClassify ==
    \/ ClassifyCall
    \/ ClassifyReturn

SpecClassify == Init /\ [][NextClassify]_vars

(***************************************************************************)
(* The fold step of _calculate_cf_total (line 171) on its own, over the    *)
(* signed domain: the accumulated CF and the new contribution are the      *)
(* decimals of one fractional digit in [-1, 1], as Decimal('-0.3') and     *)
(* Decimal('1.0') are.  A knowledge base with negative weights in CF_PAKAR *)
(* feeds the statement such operands.                                      *)
(***************************************************************************)
SignedCfs ==
    {Dec(FALSE, StripHigh(<<k % 10, k \div 10>>), -1) : k \in 0..10}
    \cup {Dec(TRUE, StripHigh(<<k % 10, k \div 10>>), -1) : k \in 1..10}

Combine(cf_total, cf) ==
    /\ cmb' = [cf_total |-> cf_total, cf |-> cf, result |-> CombineStep(cf_total, cf)]
    /\ UNCHANGED <<serviceVars, cls, seen, httpVars, threadVars>>

CombineReturn ==
    /\ cmb # NoCombine
    /\ cmb' = NoCombine
    /\ UNCHANGED <<serviceVars, cls, seen, httpVars, threadVars>>

\* one turn of the loop over cf_combined[1:]
CombineCall ==
    /\ cmb = NoCombine
    /\ \E cf_total \in SignedCfs, cf \in SignedCfs : Combine(cf_total, cf)

NextCombine ==
    \/ CombineCall
    \/ CombineReturn

SpecCombine == Init /\ [][NextCombine]_vars

(***************************************************************************)
(* POST /api/screening (api/endpoints/screening.py).  The framework builds *)
(* the ScreeningRequest from the body before it calls screening_endpoint:  *)
(* a body the schema rejects is answered 422 with the list of errors and   *)
(* the endpoint function does not run.  The endpoint is a coroutine that   *)
(* never suspends (the coroutines it awaits contain no await), so each     *)
(* request is handled in one step of the event loop.                       *)
(***************************************************************************)
\* the defaults of rate_limit_check
max_requests == 10
window == 60

\* admitted requests beyond max_requests that the model follows
MaxOver == 2
\* admitted requests of each client other than the first that it follows
MaxOther == 1

\* the client that may send without bound
FirstClient == "10.0.0.1"

\* the moments at which requests arrive: a timestamp of moment 0 is 59
\* seconds old at 59 and a full window old at 60
Moments == {0, window - 1, window}

\* the bodies posted: the documented example, the bodies of the tests with
\* an unknown code, with an unknown value and without answers, and a body
\* with an unknown code and an unknown value
ExampleBody ==
    << <<"G01", "SS">>, <<"G02", "S">>, <<"G03", "AS">>, <<"G04", "TS">> >>

HttpBodies ==
    { ExampleBody,
      << <<"G99", "SS">> >>,
      << <<"G01", "INVALID">> >>,
      <<>>,
      << <<"G01", "SS">>, <<"G99", "INVALID">> >> }

\* schemas.py: VALID_SYMPTOM_CODES
SchemaValidCodes == {Code(i) : i \in 1..NumSymptoms}

\* Literal["TS", "AS", "S", "SS"]
SchemaValues == {"TS", "AS", "S", "SS"}

\* one error per value that is none of the literals, in the order of the body
RECURSIVE SchemaLiteralErrors(_)
SchemaLiteralErrors(v) ==
    IF v = <<>> THEN <<>>
    ELSE (IF Head(v)[2] \notin SchemaValues
          THEN << [loc |-> <<"body", "jawaban", Head(v)[1]>>, msg |-> <<>>] >>
          ELSE <<>>)
         \o SchemaLiteralErrors(Tail(v))

\* invalid_codes of validate_symptom_codes
RECURSIVE SchemaInvalidCodes(_)
SchemaInvalidCodes(v) ==
    IF v = <<>> THEN <<>>
    ELSE (IF Head(v)[1] \notin SchemaValidCodes THEN <<Head(v)[1]>> ELSE <<>>)
         \o SchemaInvalidCodes(Tail(v))

\* the errors of building ScreeningRequest(jawaban = v): the values are
\* checked against the Literal first, and validate_symptom_codes runs only
\* on a dict whose values passed; <<>> when the request is built
SchemaErrors(v) ==
    IF SchemaLiteralErrors(v) # <<>> THEN SchemaLiteralErrors(v)
    ELSE IF v = <<>>
    THEN << [loc |-> <<"body", "jawaban">>,
             msg |-> <<"Minimal harus ada 1 gejala yang diisi">>] >>
    ELSE IF SchemaInvalidCodes(v) # <<>>
    THEN << [loc |-> <<"body", "jawaban">>,
             msg |-> <<"Kode gejala tidak valid: ">>
                     \o Join(SchemaInvalidCodes(v), ", ")
                     \o <<". Harus G01-G21">>] >>
    ELSE <<>>

\* [ts for ts in timestamps if ts > window_start]
RECURSIVE PruneOld(_, _)
PruneOld(timestamps, window_start) ==
    IF timestamps = <<>> THEN <<>>
    ELSE (IF Head(timestamps) > window_start THEN <<Head(timestamps)>> ELSE <<>>)
         \o PruneOld(Tail(timestamps), window_start)

\* request_timestamps[client_ip] after "Clean old entries"
Pruned(client_ip) ==
    IF client_ip \in DOMAIN request_timestamps
    THEN PruneOld(request_timestamps[client_ip], now - window)
    ELSE <<>>

\* the test of "Check rate limit"
RateLimitExceeded(client_ip) == Len(Pruned(client_ip)) >= max_requests

\* request_timestamps with the list of client_ip replaced
StoreTimestamps(client_ip, timestamps) ==
    [c \in (DOMAIN request_timestamps) \cup {client_ip} |->
        IF c = client_ip THEN timestamps ELSE request_timestamps[c]]

\* the response to what process_screening returned or raised
EndpointResponse(out) ==
    IF out.kind = "ok"
    THEN [status_code |-> 200, detail |-> <<>>, content |-> out.results]
    ELSE IF out.kind = "ValueError"
    THEN [status_code |-> 400, detail |-> out.message, content |-> <<>>]
    ELSE [status_code |-> 500, detail |-> <<"Internal server error occurred">>,
          content |-> <<>>]

\* mutant: rate_limit_check appends current_time before it raises the 429
ScreeningEndpointRecordsRejected(client_ip, body) ==
    /\ http_request' = [client_ip |-> client_ip, jawaban |-> body]
    /\ now' = now
    /\ IF SchemaErrors(body) # <<>>
       THEN /\ http_response' = [status_code |-> 422,
                                 detail |-> SchemaErrors(body), content |-> <<>>]
            /\ UNCHANGED <<serviceVars, cls, cmb, seen, request_timestamps,
                           admitted, threadVars>>
       ELSE IF RateLimitExceeded(client_ip)
       THEN /\ request_timestamps' =
                  StoreTimestamps(client_ip, Append(Pruned(client_ip), now))
            /\ http_response' =
                  [status_code |-> 429,
                   detail |-> <<"Rate limit exceeded. Maximum ",
                                ToString(max_requests), " requests per ",
                                ToString(window), " seconds.">>,
                   content |-> <<>>]
            /\ UNCHANGED <<serviceVars, cls, cmb, seen, admitted, threadVars>>
       ELSE /\ request_timestamps' =
                  StoreTimestamps(client_ip, Append(Pruned(client_ip), now))
            /\ admitted' = [admitted EXCEPT ![client_ip] = Append(@, now)]
            /\ ProcessScreening(body)
            /\ http_response' = EndpointResponse(outcome')

\* a POST /api/screening of client_ip with body {"jawaban": body}, from
\* its arrival to its response
ScreeningEndpoint(client_ip, body) ==
    /\ http_request' = [client_ip |-> client_ip, jawaban |-> body]
    /\ now' = now
    /\ IF SchemaErrors(body) # <<>>
       THEN /\ http_response' = [status_code |-> 422,
                                 detail |-> SchemaErrors(body), content |-> <<>>]
            /\ UNCHANGED <<serviceVars, cls, cmb, seen, request_timestamps,
                           admitted, threadVars>>
       ELSE IF RateLimitExceeded(client_ip)
       THEN /\ request_timestamps' = StoreTimestamps(client_ip, Pruned(client_ip))
            /\ http_response' =
                  [status_code |-> 429,
                   detail |-> <<"Rate limit exceeded. Maximum ",
                                ToString(max_requests), " requests per ",
                                ToString(window), " seconds.">>,
                   content |-> <<>>]
            /\ UNCHANGED <<serviceVars, cls, cmb, seen, admitted, threadVars>>
       ELSE /\ request_timestamps' =
                  StoreTimestamps(client_ip, Append(Pruned(client_ip), now))
            /\ admitted' = [admitted EXCEPT ![client_ip] = Append(@, now)]
            /\ ProcessScreening(body)
            /\ http_response' = EndpointResponse(outcome')

\* the response is sent; the locals of the request are gone
Respond ==
    /\ http_response # NoResponse
    /\ http_response' = NoResponse
    /\ http_request' = NoRequest
    /\ pc' = "idle"
    /\ jawaban' = <<>>
    /\ cf_trace' = <<>>
    /\ hasil_cf' = <<>>
    /\ outcome' = NoCall
    /\ UNCHANGED <<request_count, processing_times, cls, cmb, seen,
                   request_timestamps, now, admitted, threadVars>>

\* time passes between requests
Tick ==
    /\ http_response = NoResponse
    /\ \E m \in Moments : m > now /\ now' = m
    /\ UNCHANGED <<serviceVars, cls, cmb, seen, request_timestamps,
                   http_request, http_response, admitted, threadVars>>

\* a client posts
Post ==
    /\ http_response = NoResponse
    /\ request_count < max_requests + MaxOver
    /\ \E client_ip \in Clients, body \in HttpBodies :
          /\ client_ip = FirstClient \/ Len(admitted[client_ip]) < MaxOther
          /\ ScreeningEndpoint(client_ip, body)

NextHttp ==
    \/ Post
    \/ Respond
    \/ Tick

SpecHttp == Init /\ [][NextHttp]_vars

(***************************************************************************)
(* Threads that call process_screening on the one shared instance          *)
(* (screening_service, line 277).  self._request_count += 1 reads the      *)
(* attribute, adds, and stores the attribute: the read and the store are   *)
(* separate steps between which another thread may run.  The try block     *)
(* works on locals until list.append, which is one step, so it is taken    *)
(* as one step.                                                            *)
(***************************************************************************)
\* the answer sets of the threads: one that succeeds and two that fail
ThreadSets == {ExampleBody, <<>>, << <<"G99", "SS">> >>}

\* line 44: thread t enters process_screening(jw)
ThreadCall(t, jw) ==
    /\ threads[t].pc = "idle"
    /\ threads' = [threads EXCEPT ![t] =
                      [pc |-> "load", jawaban |-> jw, count |-> 0, outcome |-> NoCall]]
    /\ invoked' = invoked + 1
    /\ UNCHANGED <<serviceVars, cls, cmb, seen, httpVars, metrics>>

\* line 59, the read of self._request_count
ThreadLoad(t) ==
    /\ threads[t].pc = "load"
    /\ threads' = [threads EXCEPT ![t].pc = "store", ![t].count = request_count]
    /\ UNCHANGED <<serviceVars, cls, cmb, seen, httpVars, metrics, invoked>>

\* line 59, the store of the sum
ThreadStore(t) ==
    /\ threads[t].pc = "store"
    /\ request_count' = threads[t].count + 1
    /\ threads' = [threads EXCEPT ![t].pc = "try"]
    /\ UNCHANGED <<processing_times, pc, jawaban, cf_trace, hasil_cf, outcome,
                   cls, cmb, seen, httpVars, metrics, invoked>>

\* mutant: the processing time is appended in a finally clause, by failing
\* calls too
ThreadTryAlwaysTimed(t) ==
    /\ threads[t].pc = "try"
    /\ LET jw == threads[t].jawaban
       IN  /\ IF ValidateInput(jw) # NoError
              THEN threads' = [threads EXCEPT ![t].pc = "idle", ![t].outcome =
                                 [kind |-> "ValueError", results |-> <<>>,
                                  message |-> ValidateInput(jw)]]
              ELSE \E hasil \in CalculateCfTotal(MapSeverityValues(jw)) :
                      threads' = [threads EXCEPT ![t].pc = "idle", ![t].outcome =
                                    [kind |-> "ok", results |-> FormatResults(hasil),
                                     message |-> <<>>]]
           /\ processing_times' = Append(processing_times, 0)
    /\ UNCHANGED <<request_count, pc, jawaban, cf_trace, hasil_cf, outcome,
                   cls, cmb, seen, httpVars, metrics, invoked>>

\* lines 61-99: the try block to its return or raise
ThreadTry(t) ==
    /\ threads[t].pc = "try"
    /\ LET jw == threads[t].jawaban
       IN  IF ValidateInput(jw) # NoError
           THEN /\ threads' = [threads EXCEPT ![t].pc = "idle", ![t].outcome =
                                 [kind |-> "ValueError", results |-> <<>>,
                                  message |-> ValidateInput(jw)]]
                /\ processing_times' = processing_times
           ELSE IF MapSeverityError(jw) # NoError
           THEN /\ threads' = [threads EXCEPT ![t].pc = "idle", ![t].outcome =
                                 [kind |-> "Exception", results |-> <<>>,
                                  message |-> <<"Terjadi kesalahan sistem dalam memproses screening: ">>
                                              \o MapSeverityError(jw)]]
                /\ processing_times' = processing_times
           ELSE /\ \E hasil \in CalculateCfTotal(MapSeverityValues(jw)) :
                      threads' = [threads EXCEPT ![t].pc = "idle", ![t].outcome =
                                    [kind |-> "ok", results |-> FormatResults(hasil),
                                     message |-> <<>>]]
                /\ processing_times' = Append(processing_times, 0)
    /\ UNCHANGED <<request_count, pc, jawaban, cf_trace, hasil_cf, outcome,
                   cls, cmb, seen, httpVars, metrics, invoked>>

\* processing_times[-10:]
LastTen(times) ==
    IF Len(times) <= 10 THEN times ELSE SubSeq(times, Len(times) - 9, Len(times))

\* get_service_metrics; the processing times being 0, so is their average
GetServiceMetrics ==
    /\ metrics' = [total_requests |-> request_count,
                   average_processing_time |-> 0,
                   recent_processing_times |-> LastTen(processing_times)]
    /\ UNCHANGED <<serviceVars, cls, cmb, seen, httpVars, threads, invoked>>

\* a thread starts an invocation
ThreadStart ==
    /\ invoked <= MaxRequests
    /\ \E t \in Threads, jw \in ThreadSets : ThreadCall(t, jw)

NextThreads ==
    \/ ThreadStart
    \/ \E t \in Threads : ThreadLoad(t)
    \/ \E t \in Threads : ThreadStore(t)
    \/ \E t \in Threads : ThreadTry(t)
    \/ GetServiceMetrics

SpecThreads == Init /\ [][NextThreads]_vars

(***************************************************************************)
(* Properties.  The vocabulary below is that of the specification, written *)
(* out independently of the service's tables.                              *)
(***************************************************************************)
SpecCodes ==
    {"G01", "G02", "G03", "G04", "G05", "G06", "G07", "G08", "G09", "G10", "G11",
     "G12", "G13", "G14", "G15", "G16", "G17", "G18", "G19", "G20", "G21"}

SpecLabels == {"TS", "AS", "S", "SS"}

SpecConditions == {"Depresi", "Kecemasan", "Stres"}

\* a call of process_screening has ended
Returned == pc = "returned"

SpecKeys(jw) == {jw[i][1] : i \in DOMAIN jw}

SpecInvalidKeys(jw) == SpecKeys(jw) \ SpecCodes

\* the rendering "code: value" of the entries whose value is no label
SpecInvalidPairs(jw) ==
    {jw[i][1] \o ": " \o jw[i][2] : i \in {j \in DOMAIN jw : jw[j][2] \notin SpecLabels}}

\* a valid answer set
SpecValid(jw) ==
    /\ jw # <<>>
    /\ Len(jw) <= Cardinality(SpecCodes)
    /\ SpecInvalidKeys(jw) = {}
    /\ SpecInvalidPairs(jw) = {}

\* the part of a message headed by head: from the head up to the next "; "
\* piece or the end of the message (empty when the head is absent)
SpecPart(msg, head) ==
    IF \A i \in DOMAIN msg : msg[i] # head THEN <<>>
    ELSE LET a == CHOOSE i \in DOMAIN msg : msg[i] = head
             b == IF \E i \in a..Len(msg) : msg[i] = "; "
                  THEN (CHOOSE i \in a..Len(msg) :
                           /\ msg[i] = "; "
                           /\ \A j \in a..(i - 1) : msg[j] # "; ") - 1
                  ELSE Len(msg)
         IN  SubSeq(msg, a, b)

\* part is head, then exactly the items, each once, joined by ", "
SpecLists(part, head, items) ==
    /\ Len(part) = 2 * Cardinality(items)
    /\ part[1] = head
    /\ {part[i] : i \in {j \in DOMAIN part : j % 2 = 0}} = items
    /\ \A i \in DOMAIN part : (i % 2 = 1 /\ i > 1) => part[i] = ", "

SpecCodeHead == "Kode gejala tidak valid: "

SpecValueHead == "Nilai severity tidak valid: "

ResultKeys == {outcome.results[i][1] : i \in DOMAIN outcome.results}

\* C1: for every valid answer set process_screening returns a result for
\* exactly the three conditions Depresi, Kecemasan and Stres, each once,
\* also those for which no relevant symptom was answered.
C1_ExactlyThreeConditions ==
    (Returned /\ SpecValid(jawaban)) =>
        /\ outcome.kind = "ok"
        /\ ResultKeys = SpecConditions
        /\ Len(outcome.results) = Cardinality(SpecConditions)

\* the tests' partial answer set: no symptom of Depresi is answered
C1_Witness ==
    /\ Returned
    /\ jawaban = << <<"G01", "SS">>, <<"G02", "S">> >>
    /\ outcome.kind = "ok"
    /\ "Depresi" \in ResultKeys

C3_Original ==
    (Returned /\ SpecInvalidKeys(jawaban) # {}) =>
        /\ outcome.kind = "ValueError"
        /\ SpecLists(SpecPart(outcome.message, SpecCodeHead), SpecCodeHead,
                     SpecInvalidKeys(jawaban))

\* C3 as amended: any answer set of at most 21 entries with at least one key
\* outside G01..G21 is rejected with a ValueError whose message lists every
\* such key, comma-joined.
C3_InvalidCodesListed ==
    (/\ Returned
     /\ Len(jawaban) <= Cardinality(SpecCodes)
     /\ SpecInvalidKeys(jawaban) # {}) =>
        /\ outcome.kind = "ValueError"
        /\ SpecLists(SpecPart(outcome.message, SpecCodeHead), SpecCodeHead,
                     SpecInvalidKeys(jawaban))

\* two keys out of the vocabulary, both listed
C3_Witness ==
    /\ Returned
    /\ Len(jawaban) <= Cardinality(SpecCodes)
    /\ Cardinality(SpecInvalidKeys(jawaban)) = 2
    /\ outcome.kind = "ValueError"
    /\ SpecInvalidKeys(jawaban) \subseteq Range(outcome.message)

\* C4: for a non-empty answer set of at most 21 entries, validation looks at
\* every entry: with any invalid key or invalid value it fails with one
\* ValueError whose message lists every invalid code and every invalid
\* (code, value) pair, the code part and the value part joined by "; ";
\* with no invalid entry it succeeds.
C4_AllErrorsEnumerated ==
    (/\ Returned
     /\ jawaban # <<>>
     /\ Len(jawaban) <= Cardinality(SpecCodes)) =>
        LET keys  == SpecInvalidKeys(jawaban)
            pairs == SpecInvalidPairs(jawaban)
            msg   == outcome.message
            cpart == SpecPart(msg, SpecCodeHead)
            vpart == SpecPart(msg, SpecValueHead)
        IN  IF keys = {} /\ pairs = {} THEN outcome.kind = "ok"
            ELSE /\ outcome.kind = "ValueError"
                 /\ outcome.results = <<>>
                 /\ keys # {} => SpecLists(cpart, SpecCodeHead, keys)
                 /\ pairs # {} => SpecLists(vpart, SpecValueHead, pairs)
                 /\ msg = IF keys = {} THEN vpart
                          ELSE IF pairs = {} THEN cpart
                          ELSE cpart \o <<"; ">> \o vpart

\* an invalid key in one entry and an invalid value in a later one
C4_Witness ==
    /\ Returned
    /\ Len(jawaban) = 2
    /\ jawaban[1][1] \notin SpecCodes /\ jawaban[1][2] \in SpecLabels
    /\ jawaban[2][1] \in SpecCodes /\ jawaban[2][2] \notin SpecLabels
    /\ outcome.kind = "ValueError"
    /\ "; " \in Range(outcome.message)

\* C5: an answer set with more than 21 entries is rejected with a
\* ValueError; the message reports the limit of 21 entries.
C5_OversizedRejected ==
    (Returned /\ Len(jawaban) > Cardinality(SpecCodes)) =>
        /\ outcome.kind = "ValueError"
        /\ outcome.results = <<>>
        /\ outcome.message = <<"Jumlah gejala melebihi batas maksimal ", "21">>

\* the 21 codes and one more key
C5_Witness ==
    /\ Returned
    /\ Len(jawaban) = Cardinality(SpecCodes) + 1
    /\ SpecCodes \subseteq SpecKeys(jawaban)
    /\ outcome.kind = "ValueError"

\* the severity table and the expert weight of the default knowledge base
SpecSeverity(label) ==
    CASE label = "TS" -> Dec(FALSE, <<2>>, -1)
      [] label = "AS" -> Dec(FALSE, <<4>>, -1)
      [] label = "S"  -> Dec(FALSE, <<6>>, -1)
      [] label = "SS" -> Dec(FALSE, <<8>>, -1)

SpecWeight == Dec(FALSE, <<9>>, -1)

\* the symptom list of a condition in the knowledge base
SpecSymptoms(c) == DictGet(DISEASE_SYMPTOMS, c)

\* a condition none of whose symptoms is answered
SpecUnanswered(c, jw) == Range(SpecSymptoms(c)) \cap SpecKeys(jw) = {}

\* cf_user * cf_expert of the answered symptoms of a list, in list order
RECURSIVE SpecContributions(_, _)
SpecContributions(list, jw) ==
    IF list = <<>> THEN <<>>
    ELSE (IF Head(list) \in SpecKeys(jw)
          THEN <<DecMul(SpecSeverity(DictGet(jw, Head(list))), SpecWeight)>>
          ELSE <<>>)
         \o SpecContributions(Tail(list), jw)

\* the sequential fold a, b |-> a + b * (1 - a) from the first contribution
RECURSIVE SpecFold(_, _)
SpecFold(acc, rest) ==
    IF rest = <<>> THEN acc
    ELSE SpecFold(DecAdd(acc, DecMul(Head(rest), DecSub(DecOne, acc))), Tail(rest))

RECURSIVE SpecDigits(_)
SpecDigits(n) == IF n = 0 THEN <<>> ELSE <<n % 10>> \o SpecDigits(n \div 10)

\* x <= y for decimals
SpecLeq(x, y) ==
    LET d == DecSub(y, x) IN d.digits = <<>> \/ ~d.neg

\* h hundredths is within 0.005 of the decimal v
SpecNearest(h, v) ==
    LET d == DecSub(Dec(FALSE, SpecDigits(h), -2), v)
    IN  SpecLeq(Dec(FALSE, d.digits, d.exp), Dec(FALSE, <<5>>, -3))

\* the decimal v >= 0 rounded half-up to hundredths
SpecHalfUp(v) ==
    LET k   == -v.exp - 2
        ds  == IF k >= 0 THEN v.digits ELSE ShiftDigits(v.digits, -k)
        n   == IF k >= 0 THEN k ELSE 0
        low == StripHigh(SubSeq(ds, 1, IF Len(ds) < n THEN Len(ds) ELSE n))
        q   == DigitsToInt(SubSeq(ds, n + 1, Len(ds)))
    IN  IF n > 0 /\ CmpDigits(low, ShiftDigits(<<5>>, n - 1)) >= 0 THEN q + 1 ELSE q

SpecExample == << <<"G01", "SS">>, <<"G02", "S">>, <<"G03", "AS">>, <<"G04", "TS">> >>

\* C6: for every valid answer set, a condition none of whose symptoms is
\* answered gets percentage exactly 0.0 and category Normal; {G01: TS} gives
\* Depresi and Kecemasan 0.0 / Normal and Stres 18.00 / Normal.
C6_NoSymptomIsZeroNormal ==
    (Returned /\ SpecValid(jawaban)) =>
        /\ \A c \in SpecConditions :
              SpecUnanswered(c, jawaban) =>
                 /\ DictHas(hasil_cf, c) /\ DictGet(hasil_cf, c) = 0
                 /\ DictHas(outcome.results, c)
                 /\ DictGet(outcome.results, c).kategori = "Normal"
        /\ jawaban = << <<"G01", "TS">> >> =>
              /\ DictGet(hasil_cf, "Stres") = 1800
              /\ DictGet(outcome.results, "Stres").kategori = "Normal"

C6_Witness ==
    /\ Returned
    /\ jawaban = << <<"G01", "TS">> >>
    /\ hasil_cf = << <<"Depresi", 0>>, <<"Kecemasan", 0>>, <<"Stres", 1800>> >>
    /\ \A c \in SpecConditions : DictGet(outcome.results, c).kategori = "Normal"

\* C7: with the default knowledge base, the percentage of every condition
\* with an answered symptom is 100 times the sequential fold of the
\* contributions cf_user * 0.9 of its answered symptoms in symptom-list
\* order, to the two decimals of a percentage; the documented example gives
\* Stres 72.00 (Ringan), Kecemasan 70.56 (Ringan), Depresi 18.00 (Normal).
C7_PercentageIsFold ==
    (Returned /\ SpecValid(jawaban)) =>
        /\ \A c \in SpecConditions :
              LET cs == SpecContributions(SpecSymptoms(c), jawaban)
              IN  cs # <<>> =>
                     SpecNearest(DictGet(hasil_cf, c),
                                 DecMul(SpecFold(Head(cs), Tail(cs)), DecHundred))
        /\ SpecKeys(jawaban) = SpecKeys(SpecExample)
             /\ (\A i \in DOMAIN jawaban : jawaban[i] \in Range(SpecExample)) =>
              /\ DictGet(hasil_cf, "Stres") = 7200
              /\ DictGet(hasil_cf, "Kecemasan") = 7056
              /\ DictGet(hasil_cf, "Depresi") = 1800
              /\ DictGet(outcome.results, "Stres").kategori = "Ringan"
              /\ DictGet(outcome.results, "Kecemasan").kategori = "Ringan"
              /\ DictGet(outcome.results, "Depresi").kategori = "Normal"

C7_Witness ==
    /\ Returned
    /\ jawaban = SpecExample
    /\ DictGet(hasil_cf, "Kecemasan") = 7056
    /\ Len(DictGet(cf_trace, "Kecemasan")) = 2

SpecBand(h) ==
    IF h >= 9700 THEN "Sangat Berat"
    ELSE IF h >= 8800 THEN "Berat"
    ELSE IF h >= 8000 THEN "Sedang"
    ELSE IF h >= 4000 THEN "Ringan"
    ELSE "Normal"

\* C8: for each of the three conditions every percentage in [0, 100] falls
\* in exactly one band, taken top-down: >= 97 Sangat Berat, >= 88 Berat,
\* >= 80 Sedang, >= 40 Ringan, else Normal; 40, 80, 88 and 97 themselves
\* belong to the higher band.
C8_BandsTopDown ==
    (cls # NoClass /\ cls.penyakit \in SpecConditions) =>
        /\ cls.kategori = SpecBand(cls.persentase)
        /\ cls.persentase = 4000 => cls.kategori = "Ringan"
        /\ cls.persentase = 8000 => cls.kategori = "Sedang"
        /\ cls.persentase = 8800 => cls.kategori = "Berat"
        /\ cls.persentase = 9700 => cls.kategori = "Sangat Berat"

C8_Witness ==
    /\ cls.penyakit = "Kecemasan"
    /\ cls.persentase = 8000
    /\ cls.kategori = "Sedang"

C10_Ranges ==
    (Returned /\ SpecValid(jawaban)) =>
        /\ \A i \in DOMAIN hasil_cf : hasil_cf[i][2] >= 0 /\ hasil_cf[i][2] <= 10000
        /\ \A i \in DOMAIN cf_trace :
              \A k \in DOMAIN cf_trace[i][2] :
                 /\ SpecLeq(Dec(FALSE, <<>>, 0), cf_trace[i][2][k])
                 /\ SpecLeq(cf_trace[i][2][k], Dec(FALSE, <<1>>, 0))

\* all seven symptoms of Depresi answered SS: six fold steps, 99.99
C10_Witness ==
    /\ Returned
    /\ SpecValid(jawaban)
    /\ Len(DictGet(cf_trace, "Depresi")) = 7
    /\ DictGet(hasil_cf, "Depresi") = 9999

\* decimals compared by value
SpecEq(x, y) == DecSub(x, y).digits = <<>>

SpecZero == Dec(FALSE, <<>>, 0)

SpecAbs(x) == Dec(FALSE, x.digits, x.exp)

SpecMin(x, y) == IF SpecLeq(x, y) THEN x ELSE y

\* r is the two-argument combine rule's value for a and b; the quotient of
\* the opposite-sign branch is taken to the precision of the arithmetic:
\* r * (1 - min(|a|, |b|)) is within 1e-26 of a + b
SpecCombine3(a, b, r) ==
    IF SpecLeq(SpecZero, a) /\ SpecLeq(SpecZero, b)
    THEN SpecEq(r, DecAdd(a, DecMul(b, DecSub(DecOne, a))))
    ELSE IF SpecLeq(a, SpecZero) /\ SpecLeq(b, SpecZero)
    THEN SpecEq(r, DecAdd(a, DecMul(b, DecAdd(DecOne, a))))
    ELSE LET den == DecSub(DecOne, SpecMin(SpecAbs(a), SpecAbs(b)))
         IN  IF SpecEq(den, SpecZero) THEN SpecEq(r, SpecZero)
             ELSE SpecLeq(SpecAbs(DecSub(DecMul(r, den), DecAdd(a, b))),
                          Dec(FALSE, <<1>>, -26))

\* C11: a fold step applies the two-argument combine rule over the signed
\* domain: for accumulated CF a and contribution b in [-1, 1] the result is
\* a + b*(1 - a) when both are >= 0, a + b*(1 + a) when both are <= 0, and
\* (a + b) / (1 - min(|a|, |b|)) when the signs are opposite, 0.0 when that
\* denominator is zero.
C11_SignedCombine ==
    cmb # NoCombine => SpecCombine3(cmb.cf_total, cmb.cf, cmb.result)

\* C12: process_screening is deterministic and independent of history: a
\* call with the same answer set as an earlier call on the same service
\* instance returns or raises the same as that call did, whatever calls,
\* successful or failing, were made before or in between.
C12_SameInputSameOutput ==
    (Returned /\ seen # <<>> /\ seen[1] = jawaban) => outcome = seen[2]

\* the documented example scored a second time, after a call that failed
C12_Witness ==
    /\ Returned
    /\ seen # <<>>
    /\ seen[1] = jawaban
    /\ jawaban = SpecExample
    /\ outcome.kind = "ok"
    /\ request_count = 3
    /\ Len(processing_times) = 2

\* C13: a successful call returns, for each of the three conditions, the
\* numeric percentage (persentase) together with kategori and keterangan.
C13_PercentageReturned ==
    (Returned /\ outcome.kind = "ok") =>
        \A c \in SpecConditions :
           /\ DictHas(outcome.results, c)
           /\ {"persentase", "kategori", "keterangan"}
                 \subseteq DOMAIN DictGet(outcome.results, c)
           /\ DictHas(hasil_cf, c)
           /\ DictGet(outcome.results, c).persentase = DictGet(hasil_cf, c)

\* the ends of the five bands, in hundredths
SpecBandPoints == {0, 3999, 4000, 7999, 8000, 8799, 8800, 9699, 9700, 10000}

\* the text of a classification is fixed by its (condition, band) pair
SpecTextFixed ==
    \A h \in SpecBandPoints :
       SpecBand(h) = cls.kategori =>
          DetermineCategory(cls.penyakit, h) = <<cls.kategori, cls.keterangan>>

\* C14 as claimed: the classification text table has one fixed entry per
\* (condition, band) pair, 3 conditions by 5 bands, and the texts of any two
\* different pairs are distinct.
C14_Original ==
    (cls # NoClass /\ cls.penyakit \in SpecConditions) =>
        /\ SpecTextFixed
        /\ \A c \in SpecConditions, h \in SpecBandPoints :
              <<c, SpecBand(h)>> # <<cls.penyakit, cls.kategori>> =>
                 DetermineCategory(c, h)[2] # cls.keterangan

\* C14: the classification text table has one fixed entry per (condition,
\* band) pair, 3 conditions by 5 bands; the texts of two different pairs are
\* the same exactly when both pairs are of the Normal band, whose text is
\* shared by the three conditions.
C14_TextsDistinctButNormal ==
    (cls # NoClass /\ cls.penyakit \in SpecConditions) =>
        /\ SpecTextFixed
        /\ \A c \in SpecConditions, h \in SpecBandPoints :
              <<c, SpecBand(h)>> # <<cls.penyakit, cls.kategori>> =>
                 (DetermineCategory(c, h)[2] = cls.keterangan
                    <=> (cls.kategori = "Normal" /\ SpecBand(h) = "Normal"))

C14_Witness ==
    /\ cls.penyakit = "Stres"
    /\ cls.persentase = 3999
    /\ cls.kategori = "Normal"
    /\ cls.keterangan = DetermineCategory("Depresi", 0)[2]

SpecWrapHead == "Terjadi kesalahan sistem dalam memproses screening: "

Answered == http_response # NoResponse

\* some piece of a message is the given text
SpecContains(msg, text) == \E i \in DOMAIN msg : msg[i] = text

\* C16: a POST /api/screening whose answers contain a symptom code outside
\* G01..G21, and which is not rate limited, reaches the service and is
\* answered with status 400 and a detail message containing "Kode gejala
\* tidak valid".
C16_InvalidCodeIs400 ==
    (Answered /\ SpecInvalidKeys(http_request.jawaban) # {}
              /\ http_response.status_code # 429) =>
        /\ http_response.status_code = 400
        /\ SpecContains(http_response.detail, SpecCodeHead)
        /\ outcome.kind = "ValueError"

\* the request being answered passed the rate limiter and was processed
SpecAdmitted == http_response.status_code \notin {422, 429}

\* the times of the requests of the client that were admitted before the
\* request being answered
SpecEarlier ==
    LET all == admitted[http_request.client_ip]
    IN  IF SpecAdmitted THEN SubSeq(all, 1, Len(all) - 1) ELSE all

\* how many of them are strictly later than 60 seconds before now
SpecRecent == Cardinality({i \in DOMAIN SpecEarlier : SpecEarlier[i] > now - 60})

\* C17: the endpoint admits at most 10 requests per 60 seconds per client:
\* a request of client c arriving at time t is admitted iff fewer than 10
\* earlier admitted requests of c are strictly later than t - 60, whatever
\* other clients sent, and is otherwise rejected with status 429 before any
\* screening is processed.
C17_RateLimit ==
    Answered =>
        /\ SpecAdmitted <=> SpecRecent < 10
        /\ ~SpecAdmitted =>
              /\ http_response.status_code = 429
              /\ outcome = NoCall

\* a step of some thread inside process_screening
SpecThreadStep(t) == threads[t].pc # "idle" /\ threads'[t] # threads[t]

\* C18 as claimed: every invocation of process_screening, successful or
\* failing, leaves all shared state unchanged: the fields of the service
\* instance are the same after each of its steps as before.
C18_Original ==
    [][\A t \in Threads :
          SpecThreadStep(t) => UNCHANGED <<request_count, processing_times>>]_vars

\* C18: an invocation of process_screening writes, besides its locals, only
\* the two bookkeeping fields of the service instance: it stores into
\* _request_count one more than the value it read from it, in failing
\* invocations too, and a successful invocation appends one entry to
\* _processing_times, which a failing one leaves alone; the other shared
\* state (the rate limiter's timestamps) is not touched.
C18_OnlyBookkeepingWritten ==
    [][\A t \in Threads :
          SpecThreadStep(t) =>
             /\ request_count' # request_count =>
                   /\ threads[t].pc = "store"
                   /\ request_count' = threads[t].count + 1
             /\ threads[t].pc = "store" => request_count' = threads[t].count + 1
             /\ processing_times' # processing_times =>
                   /\ threads'[t].outcome.kind = "ok"
                   /\ Len(processing_times') = Len(processing_times) + 1
                   /\ SubSeq(processing_times', 1, Len(processing_times))
                         = processing_times
             /\ (threads[t].pc = "try" /\ threads'[t].outcome.kind = "ok") =>
                   processing_times' # processing_times
             /\ UNCHANGED request_timestamps]_vars

\* a failing invocation has ended after a successful one: two stores to the
\* counter, one processing time
C18_Witness ==
    /\ \E t \in Threads :
          threads[t].pc = "idle" /\ threads[t].outcome.kind = "ValueError"
    /\ \E t \in Threads :
          threads[t].pc = "idle" /\ threads[t].outcome.kind = "ok"
    /\ request_count = 2
    /\ Len(processing_times) = 1

\* no thread is inside process_screening
SpecQuiet == \A t \in Threads : threads[t].pc = "idle"

\* C19: the request counter of the shared instance is updated atomically:
\* after any interleaving of N invocations of process_screening by
\* concurrent callers, get_service_metrics reports total_requests = N.
C19_NoLostUpdate ==
    [][(SpecQuiet /\ metrics' # metrics) => metrics'.total_requests = invoked]_vars

\* the place of an answer on the scale unanswered < TS < AS < S < SS
SpecAnswerPlace(jw, kode) ==
    IF ~DictHas(jw, kode) THEN 0
    ELSE LET label == DictGet(jw, kode)
         IN  IF label = "TS" THEN 1 ELSE IF label = "AS" THEN 2
             ELSE IF label = "S" THEN 3 ELSE 4

\* the place of a band on the scale Normal < Ringan < Sedang < Berat < Sangat Berat
SpecBandPlace(kategori) ==
    IF kategori = "Normal" THEN 0 ELSE IF kategori = "Ringan" THEN 1
    ELSE IF kategori = "Sedang" THEN 2 ELSE IF kategori = "Berat" THEN 3 ELSE 4

\* the codes answered differently in a and b
SpecChanged(a, b) ==
    {kode \in SpecCodes : SpecAnswerPlace(a, kode) # SpecAnswerPlace(b, kode)}

\* b is a with one answer added or one answer raised
SpecStepUp(a, b) ==
    /\ SpecValid(a)
    /\ SpecValid(b)
    /\ Cardinality(SpecChanged(a, b)) = 1
    /\ \A kode \in SpecCodes : SpecAnswerPlace(a, kode) <= SpecAnswerPlace(b, kode)

\* C20: the score is monotone in the answers: when a valid answer set B is
\* a valid answer set A with one answer added or one answer raised, every
\* condition's percentage under B is at least its percentage under A, its
\* band is not lower, and the percentage of a condition whose symptom list
\* does not hold the changed code is the same.
C20_Monotone ==
    (Returned /\ seen # <<>> /\ SpecStepUp(seen[1], jawaban)) =>
        /\ outcome.kind = "ok"
        /\ seen[2].kind = "ok"
        /\ \A c \in SpecConditions :
              /\ DictGet(hasil_cf, c) >= DictGet(seen[3], c)
              /\ SpecBandPlace(DictGet(outcome.results, c).kategori)
                    >= SpecBandPlace(DictGet(seen[2].results, c).kategori)
              /\ SpecChanged(seen[1], jawaban) \cap Range(SpecSymptoms(c)) = {}
                    => DictGet(hasil_cf, c) = DictGet(seen[3], c)

\* a raised answer has moved one condition to a higher band and left the
\* other two percentages alone
C20_Witness ==
    /\ Returned
    /\ seen # <<>>
    /\ SpecStepUp(seen[1], jawaban)
    /\ Len(jawaban) = Len(seen[1])
    /\ \E c \in SpecConditions :
          /\ DictGet(hasil_cf, c) > DictGet(seen[3], c)
          /\ SpecBandPlace(DictGet(outcome.results, c).kategori)
                > SpecBandPlace(DictGet(seen[2].results, c).kategori)
          /\ \A d \in SpecConditions \ {c} :
                DictGet(hasil_cf, d) = DictGet(seen[3], d)

\* the timestamps stored for a client
SpecStored(c) ==
    IF c \in DOMAIN request_timestamps THEN request_timestamps[c] ELSE <<>>

\* the timestamps stored for a client after the step
SpecStoredAfter(c) ==
    IF c \in DOMAIN request_timestamps' THEN request_timestamps'[c] ELSE <<>>

\* the entries of a list that are less than 60 seconds old at time t
SpecFresh(list, t) == SelectSeq(list, LAMBDA ts : t - ts < 60)

\* a request reaches the rate limiter and is answered
SpecLimiterStep ==
    /\ http_response = NoResponse
    /\ http_response' # NoResponse
    /\ http_response'.status_code # 422

\* C21: a request rejected by the rate limiter is not recorded: the stored
\* timestamp list of every client holds at most 10 entries; a rejection with
\* 429 leaves in the client's list exactly its entries younger than 60
\* seconds, touches no other list and processes nothing; and a request that
\* reaches the limiter when the oldest stored request of its client is at
\* least 60 seconds old is admitted and recorded.
C21_RejectedNotRecorded ==
    /\ [](\A c \in DOMAIN request_timestamps : Len(request_timestamps[c]) <= 10)
    /\ [][SpecLimiterStep =>
            LET c == http_request'.client_ip
            IN  /\ http_response'.status_code = 429 =>
                      /\ SpecStoredAfter(c) = SpecFresh(SpecStored(c), now)
                      /\ \A d \in Clients \ {c} : SpecStoredAfter(d) = SpecStored(d)
                      /\ request_count' = request_count
                /\ (\E i \in DOMAIN SpecStored(c) : now - SpecStored(c)[i] >= 60) =>
                      /\ http_response'.status_code # 429
                      /\ SpecStoredAfter(c) =
                            Append(SpecFresh(SpecStored(c), now), now)]_vars

\* the first client, limited by ten requests of which the oldest was sent at
\* 0, is admitted at 60: its list holds the new request and not the oldest
C21_Witness ==
    /\ Answered
    /\ http_request.client_ip = FirstClient
    /\ http_response.status_code = 200
    /\ now = 60
    /\ Len(admitted[FirstClient]) = 11
    /\ admitted[FirstClient][1] = 0
    /\ admitted[FirstClient][11] = 60
    /\ Len(request_timestamps[FirstClient]) <= 10
    /\ \A i \in DOMAIN request_timestamps[FirstClient] :
          request_timestamps[FirstClient][i] > 0
====
